---- MODULE Spec2Model ----
(***************************************************************************)
(* Model of the portfolio infrastructure: the CDK app entry point          *)
(* (infrastructure/cdk/bin/infrastructure.ts), the InfrastructureStack     *)
(* constructor (lib/infrastructure-stack.ts) executed statement by         *)
(* statement, and the dependabot configuration (.github/dependabot.yml).   *)
(*                                                                         *)
(* Strings are TLA+ strings and template literals are concatenations.      *)
(* A construct is named by its logical id; a property that holds a         *)
(* construct (bucket, certificate, zone, distribution) holds that id.      *)
(* A deploy-time attribute of a construct (its Ref, its ARN) is a token    *)
(* record [ref |-> logical id, attr |-> attribute].                        *)
(***************************************************************************)
EXTENDS Integers, Sequences, FiniteSets, TLC

(* ---------------- bounds on the inputs ---------------- *)
NumDomains == 2
NumZoneIds == 2
MaxSmallCap == 1

(* The JavaScript value undefined (tryGetContext of an absent key, an unset
   environment variable). *)
Undefined == "<undefined>"

DomainNames == {"site" \o ToString(i) \o ".example" : i \in 1..NumDomains}
ZoneIds == {"Z0ZONE" \o ToString(i) : i \in 1..NumZoneIds}
AccountIds == {"123456789012"}

(* What `-c key=value` can put in the context: nothing, the empty string, or
   a value. *)
ContextDomainValues == {Undefined, ""} \cup DomainNames
ContextZoneValues == {Undefined, ""} \cup ZoneIds
EnvAccountValues == {Undefined} \cup AccountIds

VARIABLES
  pc,            \* position in the entry script / the constructor
  context,       \* the app's context: [domainName, hostedZoneId]
  env,           \* process.env: [CDK_DEFAULT_ACCOUNT]
  app,           \* TRUE once new cdk.App() has run
  domainName,    \* the local/prop domainName
  hostedZoneId,  \* the local/prop hostedZoneId
  stack,         \* the InfrastructureStack, once constructed
  hostedZone,    \* the constructor's local hostedZone (IHostedZone)
  resources,     \* logical id -> declared resource
  outputs,       \* output id -> [value, description]
  error,         \* message of the Error thrown, or Undefined
  updates        \* dependabot.yml: the list of update entries

synthVars == <<pc, context, env, app, domainName, hostedZoneId, stack,
               hostedZone, resources, outputs, error>>
vars == <<pc, context, env, app, domainName, hostedZoneId, stack,
          hostedZone, resources, outputs, error, updates>>

(* JavaScript truthiness of a string-or-undefined value: `if (!v)`, `v ? a : b`. *)
Truthy(v) == v # Undefined /\ v # ""

NoStack == [constructed |-> FALSE]
NoZone == [kind |-> "none"]
NoValue == [undefined |-> TRUE]

Declared(id) == id \in DOMAIN resources

(* new X(this, id, props): the construct is added to the stack under id. *)
Declare(id, props) == resources' = resources @@ (id :> props)

(* new cdk.CfnOutput(this, id, {value, description}). *)
CfnOutput(id, value, description) ==
  outputs' = outputs @@ (id :> [value |-> value, description |-> description])

(* Deploy-time attributes of constructs. *)
Token(id, attr) == [ref |-> id, attr |-> attr]
Literal(s) == [literal |-> s]
bucketName(b) == Token(b, "Ref")
distributionId(d) == Token(d, "Ref")
distributionDomainName(d) == Token(d, "DomainName")
distributionArn(d) == [of |-> d, path |-> ""]
userName(u) == Token(u, "Ref")
bucketArn(b) == [of |-> b, path |-> ""]
arnForObjects(b, keyPattern) == [of |-> b, path |-> "/" \o keyPattern]

(* The dependabot configuration as written in the file. *)
DependabotUpdates ==
  << [ecosystem |-> "npm", directory |-> "/", interval |-> "weekly",
      limit |-> 10, reviewers |-> <<"caleb-wells">>, assignees |-> <<"caleb-wells">>,
      prefix |-> "deps", include |-> "scope"],
     [ecosystem |-> "npm", directory |-> "/infrastructure", interval |-> "weekly",
      limit |-> 5, reviewers |-> <<"caleb-wells">>, assignees |-> <<"caleb-wells">>,
      prefix |-> "deps(infra)", include |-> "scope"],
     [ecosystem |-> "github-actions", directory |-> "/", interval |-> "monthly",
      limit |-> 3, reviewers |-> <<"caleb-wells">>, assignees |-> <<"caleb-wells">>,
      prefix |-> "ci", include |-> Undefined] >>

Init ==
  /\ pc = "start"
  /\ context \in [domainName : ContextDomainValues, hostedZoneId : ContextZoneValues]
  /\ env \in [CDK_DEFAULT_ACCOUNT : EnvAccountValues]
  /\ app = FALSE
  /\ domainName = Undefined
  /\ hostedZoneId = Undefined
  /\ stack = NoStack
  /\ hostedZone = NoZone
  /\ resources = << >>
  /\ outputs = << >>
  /\ error = Undefined
  /\ updates = DependabotUpdates

(* ---------------- bin/infrastructure.ts ---------------- *)

\* const app = new cdk.App();
NewApp ==
  /\ pc = "start"
  /\ app' = TRUE
  /\ pc' = "getContext"
  /\ UNCHANGED <<context, env, domainName, hostedZoneId, stack, hostedZone,
                 resources, outputs, error, updates>>

\* const domainName = ...tryGetContext('domainName'); const hostedZoneId = ...
GetContext ==
  /\ pc = "getContext"
  /\ domainName' = context.domainName
  /\ hostedZoneId' = context.hostedZoneId
  /\ pc' = "checkDomainName"
  /\ UNCHANGED <<context, env, app, stack, hostedZone, resources, outputs,
                 error, updates>>

\* The guard of the entry script: !domainName
DomainNameMissing_StrictUndefined(d) == d = Undefined

DomainNameMissing(d) == ~Truthy(d)

\* if (!domainName) throw new Error(...)
CheckDomainName ==
  /\ pc = "checkDomainName"
  /\ IF DomainNameMissing(domainName)
       THEN /\ error' = "domainName context variable is required. Use: cdk deploy -c domainName=example.com"
            /\ pc' = "thrown"
       ELSE /\ error' = error
            /\ pc' = "newStack"
  /\ UNCHANGED <<context, env, app, domainName, hostedZoneId, stack,
                 hostedZone, resources, outputs, updates>>

(* ---------------- lib/infrastructure-stack.ts ---------------- *)

\* new InfrastructureStack(app, 'PortfolioStack', {...}); super(scope, id, props)
\* An unset account leaves the stack with the AWS::AccountId pseudo parameter.
NewStack ==
  /\ pc = "newStack"
  /\ stack' = [constructed |-> TRUE,
               id |-> "PortfolioStack",
               account |-> IF env.CDK_DEFAULT_ACCOUNT = Undefined
                             THEN "${AWS::AccountId}"
                             ELSE env.CDK_DEFAULT_ACCOUNT,
               region |-> "us-east-1",
               crossRegionReferences |-> TRUE]
  /\ pc' = "WebsiteBucket"
  /\ UNCHANGED <<context, env, app, domainName, hostedZoneId, hostedZone,
                 resources, outputs, error, updates>>

\* const websiteBucket = new s3.Bucket(this, 'WebsiteBucket', {...})
NewWebsiteBucket ==
  /\ pc = "WebsiteBucket"
  /\ Declare("WebsiteBucket",
       [type |-> "AWS::S3::Bucket",
        bucketName |-> domainName \o "-website",
        blockPublicAccess |-> "BLOCK_ALL",
        removalPolicy |-> "DESTROY",
        autoDeleteObjects |-> TRUE,
        versioned |-> TRUE,
        lifecycleRules |-> << [id |-> "DeleteOldVersions", enabled |-> TRUE,
                               noncurrentVersionExpirationDays |-> 30] >>,
        serverAccessLogsPrefix |-> "access-logs/"])
  /\ pc' = "OriginAccessControl"
  /\ UNCHANGED <<context, env, app, domainName, hostedZoneId, stack,
                 hostedZone, outputs, error, updates>>

\* const originAccessControl = new cloudfront.S3OriginAccessControl(...)
NewOriginAccessControl ==
  /\ pc = "OriginAccessControl"
  /\ Declare("OriginAccessControl",
       [type |-> "AWS::CloudFront::OriginAccessControl",
        description |-> "OAC for " \o domainName])
  /\ pc' = "HostedZone"
  /\ UNCHANGED <<context, env, app, domainName, hostedZoneId, stack,
                 hostedZone, outputs, error, updates>>

\* const hostedZone = hostedZoneId ? HostedZone.fromHostedZoneId(...) : new HostedZone(...)
\* An imported zone declares no resource and has no name servers attribute.
ResolveHostedZone ==
  /\ pc = "HostedZone"
  /\ IF Truthy(hostedZoneId)
       THEN /\ hostedZone' = [kind |-> "imported",
                              hostedZoneId |-> Literal(hostedZoneId),
                              hostedZoneNameServers |-> NoValue]
            /\ resources' = resources
       ELSE /\ hostedZone' = [kind |-> "new",
                              hostedZoneId |-> Token("HostedZone", "Ref"),
                              hostedZoneNameServers |-> Token("HostedZone", "NameServers")]
            /\ Declare("HostedZone",
                 [type |-> "AWS::Route53::HostedZone", zoneName |-> domainName])
  /\ pc' = "Certificate"
  /\ UNCHANGED <<context, env, app, domainName, hostedZoneId, stack,
                 outputs, error, updates>>

\* The names the certificate is issued for.
CertificateNames(d) == [domainName |-> d, subjectAlternativeNames |-> << "www." \o d >>]

\* const certificate = new acm.Certificate(this, 'Certificate', {...})
NewCertificate ==
  /\ pc = "Certificate"
  /\ Declare("Certificate",
       [type |-> "AWS::CertificateManager::Certificate",
        domainName |-> CertificateNames(domainName).domainName,
        subjectAlternativeNames |-> CertificateNames(domainName).subjectAlternativeNames,
        validation |-> [method |-> "DNS", hostedZone |-> hostedZone]])
  /\ pc' = "SecurityHeadersPolicy"
  /\ UNCHANGED <<context, env, app, domainName, hostedZoneId, stack,
                 hostedZone, outputs, error, updates>>

\* this.createSecurityHeadersPolicy(), evaluated while the distribution's
\* props are built
createSecurityHeadersPolicy ==
  /\ pc = "SecurityHeadersPolicy"
  /\ Declare("SecurityHeadersPolicy",
       [type |-> "AWS::CloudFront::ResponseHeadersPolicy",
        comment |-> "Security headers for static website",
        securityHeadersBehavior |->
          [strictTransportSecurity |-> [accessControlMaxAgeDays |-> 365,
                                        includeSubdomains |-> TRUE,
                                        preload |-> TRUE, override |-> TRUE],
           contentTypeOptions |-> [override |-> TRUE],
           frameOptions |-> [frameOption |-> "DENY", override |-> TRUE],
           referrerPolicy |-> [referrerPolicy |-> "STRICT_ORIGIN_WHEN_CROSS_ORIGIN",
                               override |-> TRUE]],
        customHeaders |->
          << [header |-> "X-Content-Type-Options", value |-> "nosniff", override |-> TRUE],
             [header |-> "X-Frame-Options", value |-> "DENY", override |-> TRUE],
             [header |-> "X-XSS-Protection", value |-> "1; mode=block", override |-> TRUE],
             [header |-> "Permissions-Policy",
              value |-> "geolocation=(), microphone=(), camera=()", override |-> TRUE] >>])
  /\ pc' = "Distribution"
  /\ UNCHANGED <<context, env, app, domainName, hostedZoneId, stack,
                 hostedZone, outputs, error, updates>>

\* origins.S3BucketOrigin.withOriginAccessControl(websiteBucket, {originAccessControl})
S3BucketOrigin_withBucketDefaults(b, oac) ==
  [bucket |-> b, originAccessControl |-> Undefined]

S3BucketOrigin_withOriginAccessControl(b, oac) ==
  [bucket |-> b, originAccessControl |-> oac]

\* domainNames: [domainName, `www.${domainName}`]
DistributionDomainNames_ApexOnly(d) == << d >>

DistributionDomainNames(d) == << d, "www." \o d >>

\* const distribution = new cloudfront.Distribution(this, 'Distribution', {...})
NewDistribution ==
  /\ pc = "Distribution"
  /\ Declare("Distribution",
       [type |-> "AWS::CloudFront::Distribution",
        defaultBehavior |->
          [origin |-> S3BucketOrigin_withOriginAccessControl(
                        "WebsiteBucket", "OriginAccessControl"),
           viewerProtocolPolicy |-> "REDIRECT_TO_HTTPS",
           allowedMethods |-> "ALLOW_GET_HEAD_OPTIONS",
           compress |-> TRUE,
           cachePolicy |-> "CACHING_OPTIMIZED",
           responseHeadersPolicy |-> "SecurityHeadersPolicy"],
        domainNames |-> DistributionDomainNames(domainName),
        certificate |-> "Certificate",
        priceClass |-> "PRICE_CLASS_100",
        defaultRootObject |-> "index.html",
        errorResponses |->
          << [httpStatus |-> 404, responseHttpStatus |-> 404,
              responsePagePath |-> "/index.html", ttlMinutes |-> 5],
             [httpStatus |-> 403, responseHttpStatus |-> 404,
              responsePagePath |-> "/index.html", ttlMinutes |-> 5] >>,
        enableLogging |-> TRUE,
        logBucket |-> "WebsiteBucket",
        logFilePrefix |-> "cloudfront-logs/",
        logIncludesCookies |-> FALSE,
        minimumProtocolVersion |-> "TLS_V1_2_2021",
        comment |-> "CloudFront distribution for " \o domainName])
  /\ pc' = "BucketPolicy"
  /\ UNCHANGED <<context, env, app, domainName, hostedZoneId, stack,
                 hostedZone, outputs, error, updates>>

\* The template literal arn:aws:cloudfront::${this.account}:distribution/${distribution.distributionId}:
\* its literal text followed by the distribution's id token.
SourceArn_AnyDistribution(account, d) ==
  << Literal("arn:aws:cloudfront::" \o account \o ":distribution/*") >>

SourceArn(account, d) ==
  << Literal("arn:aws:cloudfront::" \o account \o ":distribution/"), distributionId(d) >>

\* websiteBucket.addToResourcePolicy(new iam.PolicyStatement({...})): the
\* bucket's policy resource is created on first use.
AddToResourcePolicy ==
  /\ pc = "BucketPolicy"
  /\ LET statement ==
           [sid |-> "AllowCloudFrontServicePrincipal",
            effect |-> "Allow",
            principals |-> {"cloudfront.amazonaws.com"},
            actions |-> {"s3:GetObject"},
            resources |-> {arnForObjects("WebsiteBucket", "*")},
            conditions |-> [StringEquals |->
               ("AWS:SourceArn" :> SourceArn(stack.account, "Distribution"))]]
     IN IF Declared("WebsiteBucketPolicy")
          THEN resources' = [resources EXCEPT
                 !["WebsiteBucketPolicy"].statements = Append(@, statement)]
          ELSE Declare("WebsiteBucketPolicy",
                 [type |-> "AWS::S3::BucketPolicy",
                  bucket |-> "WebsiteBucket",
                  statements |-> << statement >>])
  /\ pc' = "ARecord"
  /\ UNCHANGED <<context, env, app, domainName, hostedZoneId, stack,
                 hostedZone, outputs, error, updates>>

\* The props of the apex record and of the www record.
ApexRecord(zone, d, dist) ==
  [type |-> "AWS::Route53::RecordSet",
   recordType |-> "A",
   zone |-> zone,
   recordName |-> d,
   target |-> [alias |-> "CloudFrontTarget", distribution |-> dist]]

WwwRecord_BareLabel(zone, d, dist) ==
  [type |-> "AWS::Route53::RecordSet",
   recordType |-> "A",
   zone |-> zone,
   recordName |-> "www",
   target |-> [alias |-> "CloudFrontTarget", distribution |-> dist]]

WwwRecord(zone, d, dist) ==
  [type |-> "AWS::Route53::RecordSet",
   recordType |-> "A",
   zone |-> zone,
   recordName |-> "www." \o d,
   target |-> [alias |-> "CloudFrontTarget", distribution |-> dist]]

\* new route53.ARecord(this, 'ARecord', {...})
NewARecord ==
  /\ pc = "ARecord"
  /\ Declare("ARecord", ApexRecord(hostedZone, domainName, "Distribution"))
  /\ pc' = "WwwARecord"
  /\ UNCHANGED <<context, env, app, domainName, hostedZoneId, stack,
                 hostedZone, outputs, error, updates>>

\* new route53.ARecord(this, 'WwwARecord', {...})
NewWwwARecord ==
  /\ pc = "WwwARecord"
  /\ Declare("WwwARecord", WwwRecord(hostedZone, domainName, "Distribution"))
  /\ pc' = "DeploymentUser"
  /\ UNCHANGED <<context, env, app, domainName, hostedZoneId, stack,
                 hostedZone, outputs, error, updates>>

\* const deploymentUser = new iam.User(this, 'DeploymentUser', {...})
NewDeploymentUser ==
  /\ pc = "DeploymentUser"
  /\ Declare("DeploymentUser",
       [type |-> "AWS::IAM::User",
        userName |-> domainName \o "-deployment-user"])
  /\ pc' = "DeploymentPolicy"
  /\ UNCHANGED <<context, env, app, domainName, hostedZoneId, stack,
                 hostedZone, outputs, error, updates>>

\* The actions of the first statement of DeploymentPolicy.
DeploymentBucketActions_AllOfS3 ==
  {"s3:PutObject", "s3:PutObjectAcl", "s3:GetObject", "s3:DeleteObject", "s3:ListBucket",
   "s3:*"}

DeploymentBucketActions ==
  {"s3:PutObject", "s3:PutObjectAcl", "s3:GetObject", "s3:DeleteObject", "s3:ListBucket"}

\* The two statements of DeploymentPolicy.
DeploymentStatements_AnyDistribution(b, d) ==
  << [effect |-> "Allow",
      actions |-> DeploymentBucketActions,
      resources |-> {bucketArn(b), arnForObjects(b, "*")}],
     [effect |-> "Allow",
      actions |-> {"cloudfront:CreateInvalidation"},
      resources |-> {[of |-> "*", path |-> ""]}] >>

DeploymentStatements(b, d) ==
  << [effect |-> "Allow",
      actions |-> DeploymentBucketActions,
      resources |-> {bucketArn(b), arnForObjects(b, "*")}],
     [effect |-> "Allow",
      actions |-> {"cloudfront:CreateInvalidation"},
      resources |-> {distributionArn(d)}] >>

\* const deploymentPolicy = new iam.Policy(this, 'DeploymentPolicy', {statements: [...]})
NewDeploymentPolicy ==
  /\ pc = "DeploymentPolicy"
  /\ Declare("DeploymentPolicy",
       [type |-> "AWS::IAM::Policy",
        statements |-> DeploymentStatements("WebsiteBucket", "Distribution"),
        users |-> {}])
  /\ pc' = "attachInlinePolicy"
  /\ UNCHANGED <<context, env, app, domainName, hostedZoneId, stack,
                 hostedZone, outputs, error, updates>>

\* deploymentUser.attachInlinePolicy(deploymentPolicy)
AttachInlinePolicy ==
  /\ pc = "attachInlinePolicy"
  /\ resources' = [resources EXCEPT
       !["DeploymentPolicy"].users = @ \cup {"DeploymentUser"}]
  /\ pc' = "WebsiteBucketName"
  /\ UNCHANGED <<context, env, app, domainName, hostedZoneId, stack,
                 hostedZone, outputs, error, updates>>

\* new cdk.CfnOutput(this, 'WebsiteBucketName', {...})
OutputWebsiteBucketName ==
  /\ pc = "WebsiteBucketName"
  /\ CfnOutput("WebsiteBucketName", bucketName("WebsiteBucket"),
               "Name of the S3 bucket for website content")
  /\ pc' = "CloudFrontDistributionId"
  /\ UNCHANGED <<context, env, app, domainName, hostedZoneId, stack,
                 hostedZone, resources, error, updates>>

\* new cdk.CfnOutput(this, 'CloudFrontDistributionId', {...})
OutputCloudFrontDistributionId ==
  /\ pc = "CloudFrontDistributionId"
  /\ CfnOutput("CloudFrontDistributionId", distributionId("Distribution"),
               "CloudFront Distribution ID")
  /\ pc' = "CloudFrontDistributionDomainName"
  /\ UNCHANGED <<context, env, app, domainName, hostedZoneId, stack,
                 hostedZone, resources, error, updates>>

\* new cdk.CfnOutput(this, 'CloudFrontDistributionDomainName', {...})
OutputCloudFrontDistributionDomainName ==
  /\ pc = "CloudFrontDistributionDomainName"
  /\ CfnOutput("CloudFrontDistributionDomainName",
               distributionDomainName("Distribution"),
               "CloudFront Distribution Domain Name")
  /\ pc' = "DeploymentUserName"
  /\ UNCHANGED <<context, env, app, domainName, hostedZoneId, stack,
                 hostedZone, resources, error, updates>>

\* new cdk.CfnOutput(this, 'DeploymentUserName', {...})
OutputDeploymentUserName ==
  /\ pc = "DeploymentUserName"
  /\ CfnOutput("DeploymentUserName", userName("DeploymentUser"),
               "Name of the deployment user for GitHub Actions")
  /\ pc' = "WebsiteUrl"
  /\ UNCHANGED <<context, env, app, domainName, hostedZoneId, stack,
                 hostedZone, resources, error, updates>>

\* `https://${domainName}`
WebsiteUrl_Http(d) == "http://" \o d

WebsiteUrl(d) == "https://" \o d

\* new cdk.CfnOutput(this, 'WebsiteUrl', {...})
OutputWebsiteUrl ==
  /\ pc = "WebsiteUrl"
  /\ CfnOutput("WebsiteUrl", Literal(WebsiteUrl(domainName)), "Website URL")
  /\ pc' = "NameServers"
  /\ UNCHANGED <<context, env, app, domainName, hostedZoneId, stack,
                 hostedZone, resources, error, updates>>

\* The guard of the NameServers output: !hostedZoneId
ZoneWasCreated_StrictUndefined(id) == id = Undefined

ZoneWasCreated(id) == ~Truthy(id)

\* if (!hostedZoneId) new cdk.CfnOutput(this, 'NameServers', {...})
\* hostedZoneNameServers!.join(', ') throws a TypeError on an imported zone.
OutputNameServers ==
  /\ pc = "NameServers"
  /\ IF ZoneWasCreated(hostedZoneId)
       THEN IF hostedZone.hostedZoneNameServers = NoValue
              THEN /\ error' = "TypeError: Cannot read properties of undefined (reading 'join')"
                   /\ pc' = "thrown"
                   /\ outputs' = outputs
              ELSE /\ CfnOutput("NameServers",
                        [join |-> ", ", list |-> hostedZone.hostedZoneNameServers],
                        "Name servers for the hosted zone (configure these in domain registrar)")
                   /\ pc' = "synthesized"
                   /\ error' = error
       ELSE /\ outputs' = outputs
            /\ pc' = "synthesized"
            /\ error' = error
  /\ UNCHANGED <<context, env, app, domainName, hostedZoneId, stack,
                 hostedZone, resources, updates>>

Synthesis ==
  \/ NewApp
  \/ GetContext
  \/ CheckDomainName
  \/ NewStack
  \/ NewWebsiteBucket
  \/ NewOriginAccessControl
  \/ ResolveHostedZone
  \/ NewCertificate
  \/ createSecurityHeadersPolicy
  \/ NewDistribution
  \/ AddToResourcePolicy
  \/ NewARecord
  \/ NewWwwARecord
  \/ NewDeploymentUser
  \/ NewDeploymentPolicy
  \/ AttachInlinePolicy
  \/ OutputWebsiteBucketName
  \/ OutputCloudFrontDistributionId
  \/ OutputCloudFrontDistributionDomainName
  \/ OutputDeploymentUserName
  \/ OutputWebsiteUrl
  \/ OutputNameServers

(* ---------------- .github/dependabot.yml ---------------- *)

\* The values an entry's settings can be edited to.
Intervals == {"daily", "weekly", "monthly"}
Limits == {3, 5, 10} \cup (1..MaxSmallCap)
Prefixes == {"deps", "deps(infra)", "ci"}

\* schedule.interval of entry i: each list item carries its own mapping.
SetInterval_ByDirectory(ups, i, v) ==
  [j \in 1..Len(ups) |->
     IF ups[j].directory = ups[i].directory THEN [ups[j] EXCEPT !.interval = v]
                                            ELSE ups[j]]

SetInterval(ups, i, v) == [ups EXCEPT ![i].interval = v]

\* open-pull-requests-limit of entry i
SetLimit(ups, i, n) == [ups EXCEPT ![i].limit = n]

\* commit-message.prefix of entry i
SetPrefix(ups, i, p) == [ups EXCEPT ![i].prefix = p]

EditInterval ==
  /\ \E i \in 1..Len(updates), v \in Intervals :
       /\ v # updates[i].interval
       /\ updates' = SetInterval(updates, i, v)
  /\ UNCHANGED synthVars

EditLimit ==
  /\ \E i \in 1..Len(updates), n \in Limits :
       /\ n # updates[i].limit
       /\ updates' = SetLimit(updates, i, n)
  /\ UNCHANGED synthVars

EditPrefix ==
  /\ \E i \in 1..Len(updates), p \in Prefixes :
       /\ p # updates[i].prefix
       /\ updates' = SetPrefix(updates, i, p)
  /\ UNCHANGED synthVars

(* ---------------- specifications ---------------- *)

Next == Synthesis

Spec == Init /\ [][Next]_vars

\* The dependabot configuration under edits; the synthesis inputs play no part.
ConfigInit ==
  /\ Init
  /\ context = [domainName |-> Undefined, hostedZoneId |-> Undefined]
  /\ env = [CDK_DEFAULT_ACCOUNT |-> Undefined]

ConfigNext ==
  \/ EditInterval
  \/ EditLimit
  \/ EditPrefix

ConfigSpec == ConfigInit /\ [][ConfigNext]_vars

(* ---------------- the reference graph of the declared resources ---------------- *)

\* A new zone is a resource of the stack; an imported zone is not.
ZoneRefs(z) == IF z.kind = "new" THEN {z.hostedZoneId.ref} ELSE {}

StatementRefs(st) ==
  {res.of : res \in st.resources} \cup
  (IF "conditions" \in DOMAIN st
     THEN LET arn == st.conditions.StringEquals["AWS:SourceArn"]
          IN {arn[k].ref : k \in {n \in 1..Len(arn) : "ref" \in DOMAIN arn[n]}}
     ELSE {})

\* The resources a declared resource references through its props.
References(id) ==
  LET r == resources[id] IN
  CASE r.type = "AWS::CertificateManager::Certificate" ->
         ZoneRefs(r.validation.hostedZone)
    [] r.type = "AWS::CloudFront::Distribution" ->
         {r.defaultBehavior.origin.bucket,
          r.defaultBehavior.origin.originAccessControl,
          r.defaultBehavior.responseHeadersPolicy,
          r.certificate, r.logBucket} \ {Undefined}
    [] r.type = "AWS::S3::BucketPolicy" ->
         {r.bucket} \cup UNION {StatementRefs(r.statements[k]) : k \in 1..Len(r.statements)}
    [] r.type = "AWS::Route53::RecordSet" ->
         ZoneRefs(r.zone) \cup {r.target.distribution}
    [] r.type = "AWS::IAM::Policy" ->
         r.users \cup UNION {StatementRefs(r.statements[k]) : k \in 1..Len(r.statements)}
    [] OTHER -> {}

RECURSIVE Closure(_, _)
Closure(S, n) ==
  IF n = 0 THEN S
  ELSE Closure(S \cup UNION {References(x) : x \in S \cap DOMAIN resources}, n - 1)

\* Everything id references, directly or through other resources.
Reachable(id) == Closure(References(id), Cardinality(DOMAIN resources))

OfType(t) == {id \in DOMAIN resources : resources[id].type = t}

Synthesized == pc = "synthesized"

(* ---------------- properties ---------------- *)

TheDistribution == CHOOSE d \in OfType("AWS::CloudFront::Distribution") : TRUE
TheBucket == CHOOSE b \in OfType("AWS::S3::Bucket") : TRUE

\* C1: without a hostedZoneId (absent or empty) the synthesized stack declares
\* a new hosted zone named domainName and has the NameServers output; with a
\* hostedZoneId it references the zone with exactly that id, declares no zone
\* and has no NameServers output; the zone branch and the output branch never
\* disagree (the name servers of an imported zone are never read).
C1_ZoneBranchesAgree ==
  /\ error # "TypeError: Cannot read properties of undefined (reading 'join')"
  /\ Synthesized =>
       IF Truthy(context.hostedZoneId)
         THEN /\ hostedZone.kind = "imported"
              /\ hostedZone.hostedZoneId = Literal(context.hostedZoneId)
              /\ OfType("AWS::Route53::HostedZone") = {}
              /\ "NameServers" \notin DOMAIN outputs
         ELSE /\ hostedZone.kind = "new"
              /\ OfType("AWS::Route53::HostedZone") = {"HostedZone"}
              /\ resources["HostedZone"].zoneName = context.domainName
              /\ hostedZone.hostedZoneId = Token("HostedZone", "Ref")
              /\ "NameServers" \in DOMAIN outputs

C1_Witness ==
  /\ Synthesized
  /\ context.hostedZoneId = ""
  /\ "NameServers" \in DOMAIN outputs
  /\ Declared("HostedZone")

\* C2: when the domainName context is absent or empty, no stack, resource or
\* output is ever constructed, and once the check has run the script has
\* thrown the domain-name error without entering the stack constructor.
C2_FailsBeforeAnyResource ==
  ~Truthy(context.domainName) =>
    /\ stack = NoStack
    /\ resources = << >>
    /\ outputs = << >>
    /\ hostedZone = NoZone
    /\ pc \in {"start", "getContext", "checkDomainName", "thrown"}
    /\ pc = "thrown" =>
         error = "domainName context variable is required. Use: cdk deploy -c domainName=example.com"

C2_Witness ==
  /\ pc = "thrown"
  /\ context.domainName = ""
  /\ error # Undefined
  /\ resources = << >>

\* C3: in a synthesized stack, every bucket policy statement that allows the
\* CloudFront service principal carries a StringEquals AWS:SourceArn condition
\* that is the CloudFront distribution ARN, in the stack's account, of the id
\* of the one distribution declared in the stack.
C3_SourceArnIsOwnDistribution ==
  Synthesized =>
    /\ Cardinality(OfType("AWS::CloudFront::Distribution")) = 1
    /\ OfType("AWS::S3::BucketPolicy") # {}
    /\ \A p \in OfType("AWS::S3::BucketPolicy") :
         /\ resources[p].bucket = TheBucket
         /\ \E k \in 1..Len(resources[p].statements) :
              "cloudfront.amazonaws.com" \in resources[p].statements[k].principals
         /\ \A k \in 1..Len(resources[p].statements) :
              LET st == resources[p].statements[k] IN
              "cloudfront.amazonaws.com" \in st.principals =>
                /\ st.effect = "Allow"
                /\ st.actions = {"s3:GetObject"}
                /\ st.conditions.StringEquals["AWS:SourceArn"] =
                     << Literal("arn:aws:cloudfront::" \o stack.account \o ":distribution/"),
                        Token(TheDistribution, "Ref") >>

C3_Witness ==
  /\ Synthesized
  /\ Declared("WebsiteBucketPolicy")
  /\ Len(resources["WebsiteBucketPolicy"].statements) = 1
  /\ stack.account = "123456789012"

\* C4: in a synthesized stack, every resource entry of every statement of
\* DeploymentPolicy is an ARN of the stack's bucket (or of its objects) or of
\* the stack's distribution, both are named, and no entry is the wildcard.
C4_DeploymentPolicyScope ==
  Synthesized =>
    LET sts == resources["DeploymentPolicy"].statements
        entries == UNION {sts[k].resources : k \in 1..Len(sts)}
    IN /\ Cardinality(OfType("AWS::S3::Bucket")) = 1
       /\ Cardinality(OfType("AWS::CloudFront::Distribution")) = 1
       /\ \A k \in 1..Len(sts) : sts[k].resources # {}
       /\ \A e \in entries : e.of # "*" /\ e.of \in {TheBucket, TheDistribution}
       /\ {e.of : e \in entries} = {TheBucket, TheDistribution}
       /\ \A e \in entries : e.of = TheDistribution => e.path = ""
       /\ \A e \in entries : e.of = TheBucket => e.path \in {"", "/*"}
       /\ resources["DeploymentPolicy"].users = {"DeploymentUser"}

C4_Witness ==
  /\ Synthesized
  /\ Declared("DeploymentPolicy")
  /\ Len(resources["DeploymentPolicy"].statements) = 2
  /\ "DeploymentUser" \in resources["DeploymentPolicy"].users

DeploymentActions ==
  LET sts == resources["DeploymentPolicy"].statements
  IN UNION {sts[k].actions : k \in 1..Len(sts)}

\* C5 as claimed: the actions of DeploymentPolicy are within object put, get,
\* delete, list and cache invalidation.
C5_OnlyFiveCapabilities ==
  Synthesized =>
    DeploymentActions \subseteq
      {"s3:PutObject", "s3:GetObject", "s3:DeleteObject", "s3:ListBucket",
       "cloudfront:CreateInvalidation"}

\* C5 as amended: the actions of DeploymentPolicy are exactly object put,
\* object-ACL put, get, delete and list, granted on the bucket only, and cache
\* invalidation, granted on the distribution only.
C5_SixActions ==
  Synthesized =>
    LET sts == resources["DeploymentPolicy"].statements IN
    /\ DeploymentActions =
         {"s3:PutObject", "s3:PutObjectAcl", "s3:GetObject", "s3:DeleteObject",
          "s3:ListBucket", "cloudfront:CreateInvalidation"}
    /\ \A k \in 1..Len(sts) :
         /\ sts[k].effect = "Allow"
         /\ \A e \in sts[k].resources :
              /\ e.of = TheBucket =>
                   sts[k].actions \subseteq
                     {"s3:PutObject", "s3:PutObjectAcl", "s3:GetObject",
                      "s3:DeleteObject", "s3:ListBucket"}
              /\ e.of = TheDistribution =>
                   sts[k].actions = {"cloudfront:CreateInvalidation"}

C5_Witness ==
  /\ Synthesized
  /\ "s3:PutObjectAcl" \in DeploymentActions
  /\ "cloudfront:CreateInvalidation" \in DeploymentActions

\* C6: in a synthesized stack, in both zone branches, exactly two record sets
\* are declared, named domainName and www.domainName; both are alias A records
\* in the resolved hosted zone whose target is the one distribution of the stack.
C6_TwoAliasRecords ==
  Synthesized =>
    LET recs == OfType("AWS::Route53::RecordSet") IN
    /\ Cardinality(recs) = 2
    /\ {resources[r].recordName : r \in recs} =
         {context.domainName, "www." \o context.domainName}
    /\ Cardinality(OfType("AWS::CloudFront::Distribution")) = 1
    /\ hostedZone.kind \in {"new", "imported"}
    /\ \A r \in recs :
         /\ resources[r].recordType = "A"
         /\ resources[r].zone = hostedZone
         /\ resources[r].target.alias = "CloudFrontTarget"
         /\ resources[r].target.distribution = TheDistribution

C6_Witness ==
  /\ Synthesized
  /\ hostedZone.kind = "imported"
  /\ Declared("ARecord")
  /\ Declared("WwwARecord")

\* C7: at every point of synthesis every reference goes to a resource already
\* declared and no resource reaches itself through references; hence in any
\* creation order that respects references the distribution comes after the
\* bucket, the access-control binding, the certificate and the headers policy,
\* and both DNS records come after the distribution.
C7_AcyclicAndOrdered ==
  /\ \A id \in DOMAIN resources :
       /\ References(id) \subseteq DOMAIN resources
       /\ id \notin Reachable(id)
  /\ Declared("Distribution") =>
       {"WebsiteBucket", "OriginAccessControl", "Certificate", "SecurityHeadersPolicy"}
         \subseteq Reachable("Distribution")
  /\ Declared("ARecord") => "Distribution" \in Reachable("ARecord")
  /\ Declared("WwwARecord") => "Distribution" \in Reachable("WwwARecord")
  /\ Declared("WebsiteBucketPolicy") =>
       {"WebsiteBucket", "Distribution"} \subseteq Reachable("WebsiteBucketPolicy")
  /\ Synthesized =>
       {"WebsiteBucket", "WebsiteBucketPolicy", "OriginAccessControl", "Certificate",
        "SecurityHeadersPolicy", "Distribution", "ARecord", "WwwARecord",
        "DeploymentUser", "DeploymentPolicy"} \subseteq DOMAIN resources

C7_Witness ==
  /\ Synthesized
  /\ "Distribution" \in References("WebsiteBucketPolicy")
  /\ "WebsiteBucket" \in References("Distribution")
  /\ "HostedZone" \in Reachable("Distribution")

\* C8: a synthesized stack has exactly the outputs WebsiteBucketName,
\* CloudFrontDistributionId, CloudFrontDistributionDomainName,
\* DeploymentUserName and WebsiteUrl (https:// followed by domainName), whose
\* values are fixed by domainName and the stack's own resources, plus
\* NameServers exactly when the zone was created.
C8_Outputs ==
  Synthesized =>
    /\ DOMAIN outputs =
         {"WebsiteBucketName", "CloudFrontDistributionId",
          "CloudFrontDistributionDomainName", "DeploymentUserName", "WebsiteUrl"}
         \cup (IF hostedZone.kind = "new" THEN {"NameServers"} ELSE {})
    /\ outputs["WebsiteBucketName"].value = Token(TheBucket, "Ref")
    /\ outputs["CloudFrontDistributionId"].value = Token(TheDistribution, "Ref")
    /\ outputs["CloudFrontDistributionDomainName"].value = Token(TheDistribution, "DomainName")
    /\ outputs["DeploymentUserName"].value = Token("DeploymentUser", "Ref")
    /\ outputs["WebsiteUrl"].value = Literal("https://" \o context.domainName)
    /\ resources["DeploymentUser"].type = "AWS::IAM::User"
    /\ hostedZone.kind = "new" =>
         outputs["NameServers"].value =
           [join |-> ", ", list |-> Token("HostedZone", "NameServers")]

C8_Witness ==
  /\ Synthesized
  /\ Cardinality(DOMAIN outputs) = 5
  /\ Truthy(context.hostedZoneId)
  /\ outputs["WebsiteUrl"].value.literal = "https://site1.example"

SeqRange(q) == {q[k] : k \in 1..Len(q)}

\* C10: in a synthesized stack the names the certificate covers, the
\* distribution's domain names and the names of the record sets are all
\* {domainName, www.domainName}, the distribution uses that certificate, and
\* the certificate is DNS-validated against the zone that holds the records.
C10_SameHostnames ==
  Synthesized =>
    LET names == {context.domainName, "www." \o context.domainName}
        cert == resources["Certificate"]
        recs == OfType("AWS::Route53::RecordSet")
    IN /\ {cert.domainName} \cup SeqRange(cert.subjectAlternativeNames) = names
       /\ SeqRange(resources["Distribution"].domainNames) = names
       /\ {resources[r].recordName : r \in recs} = names
       /\ resources["Distribution"].certificate = "Certificate"
       /\ cert.validation.method = "DNS"
       /\ cert.validation.hostedZone = hostedZone
       /\ \A r \in recs : resources[r].zone = cert.validation.hostedZone

C10_Witness ==
  /\ Synthesized
  /\ context.domainName = "site2.example"
  /\ "www.site2.example" \in SeqRange(resources["Distribution"].domainNames)
  /\ resources["Certificate"].validation.hostedZone.kind = "new"
====
